---- MODULE Spec2Model ----
(***************************************************************************)
(* Model of the speech-turn detector of voice-chat-ai: the capture         *)
(* callback and segmentation state machine (AudioRecorder.audio_callback,  *)
(* process_audio_buffer, process_speech_segments), the bounded ASR queue   *)
(* and its worker (asr_consumer_worker), the capture gate                  *)
(* (resume_recording), the response thread of main.py                      *)
(* (process_ai_response) and the recording cache (_save_recording_file,    *)
(* _cleanup_recording_cache).                                              *)
(*                                                                         *)
(* Units: durations are integers in milliseconds (the code's 0.3 s is 300, *)
(* 1.5 s is 1500).  The capture thread reads the wall clock only in        *)
(* "current_time - last_active_time", so the model keeps that difference   *)
(* (silence_elapsed), which grows by one block per callback.  Cache        *)
(* timestamps are whole seconds (epoch), as int(time.time()) makes them.   *)
(* A block of audio is modelled                                            *)
(* as a run of blocksize identical stereo frames: <<l, r, voiced>>, the    *)
(* int16 peak of each channel and the verdict webrtcvad gives on each of   *)
(* the block's 20 ms chunks.                                               *)
(***************************************************************************)
EXTENDS Integers, Sequences, FiniteSets, TLC

(***************************************************************************)
(* Bounds of the model.                                                    *)
(***************************************************************************)
\* utterances (dispatched or discarded) the environment speaks in one run
\* of the pipeline, and in one run of the segmentation scenario
MaxUtterances == 3
SegUtterances == 1
\* utterances the environment speaks in one run of the delivery scenario
DeliveryUtterances == 2
\* blocks of low-level noise (voiced, below the amplitude threshold) the
\* environment puts into one utterance of the segmentation scenario
MaxNoiseBlocks == 1
\* seconds of wall-clock time that pass in one run
MaxEpoch == 2
\* speech-candidate windows the environment puts into one utterance
MaxSpeechWindows == 2
\* capacities of the ASR queue (constructor argument asr_queue_size)
QueueSmall == 1
QueueLarge == 2
\* retained cache entries (constructor argument max_cache_files)
max_cache_files == 2
\* recordings saved in one run of the cache scenario
MaxPuts == 3
\* blocks the device delivers after the script of the worked example
MaxTrailing == 3
\* failures injected into the capture thread in one run of the scenario "faults"
MaxFaults == 2

(***************************************************************************)
(* State.                                                                  *)
(***************************************************************************)
VARIABLES
  \* configuration fixed by the constructors
  enable_asr,            \* AudioRecorder.enable_asr
  speech_recognizer,     \* "loaded", or None when ASR was disabled
  tts_enabled,           \* VoiceChatSystem.tts_enabled
  min_speech_duration,   \* AudioRecorder.min_speech_duration
  asr_queue_size,        \* maxsize of AudioRecorder.asr_queue
  scenario,              \* the part of the program a run exercises: "pipeline",
                         \* "segmentation", "example" (the worked example of the
                         \* specification), "shutdown" (a run that
                         \* stop_recording ends), "faults" (the capture
                         \* thread with failing calls), "delivery" (the
                         \* pipeline with ASR on), or the cache alone,
                         \* "cache_startup" before and "cache" after the
                         \* constructor's cleanup
  \* capture thread
  silence_elapsed,       \* current_time - last_active_time at the latest callback
  capPc,                 \* "callback", or "reset" inside an end of utterance
  recording_active,
  is_paused,
  audio_buffer,
  speech_segments,
  is_recording_speech,
  is_processing,
  actual_speech_duration,
  consecutive_speech_count,
  recording_stats,
  \* dispatch queue and worker thread
  asr_queue,
  asr_stats,
  asr_consumer_active,
  wPc,                   \* position of asr_consumer_worker
  wItem,                 \* the item it holds
  wText,                 \* recognized_text
  wFile,                 \* recording_file
  \* response threads started by on_recognition_result
  aiThreads,
  \* recording cache
  recording_cache_index, \* dict, in insertion order
  cache_files,           \* files in recording_cache_dir
  epoch,                 \* int(time.time())
  \* history
  uttCount,              \* valid utterances finalized so far
  lastEnd,               \* the last end of an utterance: its speech duration, the
                         \* length of its audio, and a bit
                         \* that flips at every end
  lastWindow,            \* the window evaluated last and its verdict
  isolated,              \* shape of the audio delivered so far
  fed,                   \* blocks delivered so far in the worked example
  resumeCalls,           \* calls of resume_recording per utterance
  processedLog,          \* utterances in the order the worker took them, each with the
                         \* number of items it left waiting in the queue and
                         \* the exception its processing raised
  \* caller of stop_recording
  stopPc                 \* "running" until stop_recording is called, then the
                         \* caller's position in it

configVars == <<enable_asr, speech_recognizer, tts_enabled, min_speech_duration,
                asr_queue_size, scenario>>
captureVars == <<silence_elapsed, capPc, recording_active, is_paused,
                 audio_buffer, speech_segments, is_recording_speech,
                 is_processing, actual_speech_duration,
                 consecutive_speech_count, recording_stats>>
queueVars == <<asr_queue, asr_stats, asr_consumer_active>>
workerVars == <<wPc, wItem, wText, wFile>>
cacheVars == <<recording_cache_index, cache_files, epoch>>
historyVars == <<uttCount, lastEnd, lastWindow, isolated, fed,
                 resumeCalls, processedLog>>
vars == <<configVars, stopPc, captureVars, queueVars, workerVars, aiThreads,
          cacheVars, historyVars>>

(***************************************************************************)
(* Program constants.                                                      *)
(***************************************************************************)
samplerate == 16000
\* constructor argument; 2560 frames are 8 whole 20 ms VAD chunks, and two
\* such blocks (0.32 s) make a detection window; in the worked example 1600
\* frames are 5 chunks, and three such blocks are a window of 0.3 s
blocksize == IF scenario = "example" THEN 1600 ELSE 2560
channels == 2
silence_timeout == 1500
speech_confirmation_threshold == 2
\* amplitude_threshold = 0.1 and the divisor 32768.0 of
\* calculate_audio_amplitude, compared as peak * AmpDen > AmpNum * 32768
AmpNum == 1
AmpDen == 10
FullScale == 32768
\* the 0.3 of "buffer_duration >= 0.3" and of "actual_speech_duration += 0.3"
WindowMs == 300
\* bytes of one 20 ms VAD chunk of mono int16 audio at 16 kHz
\* (step = int(samplerate * 0.02) * 2) and the minimum VAD input
VadMinBytes == 640
Int16Max == 32767

None == "None"
\* None where a queue item or a file path is expected: the values of the model
\* are compared within one shape
NoItem == [audio |-> <<>>, length |-> 0, speech |-> 0, utt |-> 0]
NoPath == [ts |-> -1, h8 |-> <<>>]
IsSentinel(item) == item = NoItem

BlockMs == (blocksize * 1000) \div samplerate

Max(a, b) == IF a >= b THEN a ELSE b
Min(a, b) == IF a <= b THEN a ELSE b

(***************************************************************************)
(* Inputs: a block as the device delivers it, float32 levels in thousandths*)
(* of full scale per channel, with the VAD verdict of its chunks.          *)
(***************************************************************************)
SpeechIn == <<300, 300, TRUE>>
SilenceIn == <<50, 50, FALSE>>
NoiseIn == <<50, 50, TRUE>>
BlockInputs == {SpeechIn, SilenceIn, NoiseIn}

\* np.clip(x, -1, 1) * 32767 cast to int16 (truncation)
ToInt16(level) == (Min(level, 1000) * Int16Max) \div 1000
ConvertBlock(indata) == <<ToInt16(indata[1]), ToInt16(indata[2]), indata[3]>>

RECURSIVE Concat(_)
Concat(segs) == IF segs = <<>> THEN <<>> ELSE Head(segs) \o Concat(Tail(segs))

\* VADProcessor.stereo_to_mono: the left channel of every frame
stereo_to_mono(raw) == [i \in 1..Len(raw) |-> raw[i][1]]
MonoBytes(mono) == Len(mono) * blocksize * 2

RECURSIVE VoicedBlocks(_)
VoicedBlocks(raw) ==
  IF raw = <<>> THEN 0
  ELSE (IF Head(raw)[3] THEN 1 ELSE 0) + VoicedBlocks(Tail(raw))

\* Python's round(0.5 * n): halves go to the even neighbour
RoundHalf(n) ==
  IF n % 2 = 0 THEN n \div 2
  ELSE IF ((n - 1) \div 2) % 2 = 0 THEN (n - 1) \div 2 ELSE (n + 1) \div 2

\* VADProcessor.check_vad_activity: at least half of the 20 ms chunks voiced
check_vad_activity(raw) ==
  LET bytes == MonoBytes(stereo_to_mono(raw))
      step == ((samplerate * 2) \div 100) * 2
      total_chunks == bytes \div step
      num == VoicedBlocks(raw) * ((blocksize * 2) \div step)
  IN IF bytes < VadMinBytes \/ total_chunks = 0 THEN FALSE
     ELSE num >= Max(1, RoundHalf(total_chunks))

RECURSIVE PeakOf(_)
PeakOf(raw) ==
  IF raw = <<>> THEN 0
  ELSE Max(Max(Head(raw)[1], Head(raw)[2]), PeakOf(Tail(raw)))

\* no amplitude gate
AmplitudeAlwaysAbove(raw) == TRUE

\* calculate_audio_amplitude(raw) > amplitude_threshold
AmplitudeAboveThreshold(raw) == PeakOf(raw) * AmpDen > AmpNum * FullScale

IsSpeechCandidate(raw) == check_vad_activity(raw) /\ AmplitudeAboveThreshold(raw)

\* len(audio_buffer) * blocksize / samplerate >= 0.3
BufferReady(buf) == Len(buf) * blocksize * 1000 >= WindowMs * samplerate

\* len(mono_audio) / (samplerate * 2), in ms
AudioLengthMs(mono) == (MonoBytes(mono) * 1000) \div (samplerate * 2)

(***************************************************************************)
(* Recording cache.  The index is the dict recording_cache_index in        *)
(* insertion order; a file is its name and the audio written to it.        *)
(***************************************************************************)
save_recordings == TRUE

\* _get_recording_hash: MD5 taken as collision-free, the digest stands for
\* the bytes it was computed from
get_recording_hash(audio_data) == <<"md5", audio_data>>

\* f"rec_{timestamp}_{audio_hash[:8]}.wav"
RecordingFilename(timestamp, audio_hash) == [ts |-> timestamp, h8 |-> audio_hash]

FileNames(files) == {f.name : f \in files}
IndexKeys(index) == {index[i].hash : i \in 1..Len(index)}

\* position of the entry sorted() puts first: least 'created', and among
\* equals the one inserted first (the sort is stable)
OldestPos(index) ==
  CHOOSE i \in 1..Len(index) :
    \A j \in 1..Len(index) :
      \/ index[i].created < index[j].created
      \/ (index[i].created = index[j].created /\ i <= j)

RemoveAt(seq, i) == SubSeq(seq, 1, i - 1) \o SubSeq(seq, i + 1, Len(seq))

\* lines 174-182 for one entry: unlink the file if it exists, then delete
\* the index row; an unlink that raises skips the delete
RECURSIVE EvictOldest(_, _, _, _)
EvictOldest(index, files, n, stuck) ==
  IF n = 0 \/ index = <<>> THEN [index |-> index, files |-> files, kept |-> <<>>]
  ELSE LET i == OldestPos(index)
           e == index[i]
           exists == e.filename \in FileNames(files)
           raises == exists /\ e.filename \in stuck
           rest == EvictOldest(RemoveAt(index, i),
                               IF exists /\ ~raises
                               THEN {f \in files : f.name # e.filename}
                               ELSE files,
                               n - 1, stuck)
       IN IF raises
          THEN [index |-> rest.index, files |-> rest.files,
                kept |-> <<e>> \o rest.kept]
          ELSE rest

\* rows in dict order again: the rows whose unlink raised stay where they were
RECURSIVE KeepOrder(_, _)
KeepOrder(index, keys) ==
  IF index = <<>> THEN <<>>
  ELSE IF Head(index).hash \in keys
       THEN <<Head(index)>> \o KeepOrder(Tail(index), keys)
       ELSE KeepOrder(Tail(index), keys)

\* _cleanup_recording_cache, lines 158-184; stuck: the files whose unlink raises
cleanup_recording_cache(index, files, stuck) ==
  IF Len(index) <= max_cache_files
  THEN [index |-> index, files |-> files]
  ELSE LET r == EvictOldest(index, files, Len(index) - max_cache_files, stuck)
           keys == IndexKeys(r.index) \cup IndexKeys(r.kept)
       IN [index |-> KeepOrder(index, keys), files |-> r.files]

\* self.recording_cache_index[audio_hash] = {...}: in place for a known key
SetEntry(index, e) ==
  IF e.hash \in IndexKeys(index)
  THEN [i \in 1..Len(index) |-> IF index[i].hash = e.hash THEN e ELSE index[i]]
  ELSE Append(index, e)

\* _save_recording_file, lines 187-233.  speech: the recorder's
\* actual_speech_duration as read at line 212; writeFails: save_wav_file
\* raises; stuck: the files whose unlink raises.
TextOk(text) == text # None /\ text # ""

\* every entry is marked recognized
RecognitionSuccessAlways(text) == TRUE

\* line 215: 'recognition_success': recognized_text is not None
RecognitionSuccess(text) == text # None

\* lines 224-228: the counters after a save that returned r
StatsAfterSave(stats, r, recognized_text) ==
  IF r.path = NoPath THEN stats
  ELSE [stats EXCEPT !.total_recordings = @ + 1,
                     !.successful_recognitions =
                        IF TextOk(recognized_text) THEN @ + 1 ELSE @,
                     !.cached_files = Len(r.index)]

save_recording_file(index, files, audio_data, text, now, speech, writeFails, stuck) ==
  IF ~save_recordings \/ writeFails
  THEN [path |-> NoPath, index |-> index, files |-> files]
  ELSE LET audio_hash == get_recording_hash(audio_data)
           filename == RecordingFilename(now, audio_hash)
           written == {f \in files : f.name # filename}
                        \cup {[name |-> filename, audio |-> audio_data]}
           entry == [hash |-> audio_hash,
                     filename |-> filename,
                     created |-> now,
                     text |-> IF text = None THEN "unrecognized"
                              ELSE text,
                     duration |-> AudioLengthMs(audio_data),
                     speech_duration |-> speech,
                     size |-> MonoBytes(audio_data),
                     recognition_success |-> RecognitionSuccess(text)]
           c == cleanup_recording_cache(SetEntry(index, entry), written, stuck)
       IN [path |-> filename, index |-> c.index, files |-> c.files]

\* AudioRecorder.__init__, lines 127-129: the index loaded from a prior run
\* is cut down to max_cache_files
init_cleanup(stuck) ==
  /\ scenario = "cache_startup"
  /\ scenario' = "cache"
  /\ LET c == cleanup_recording_cache(recording_cache_index, cache_files, stuck)
     IN /\ recording_cache_index' = c.index
        /\ cache_files' = c.files
  /\ UNCHANGED <<enable_asr, speech_recognizer, tts_enabled,
                 min_speech_duration, asr_queue_size, stopPc, captureVars,
                 queueVars,
                 workerVars, aiThreads, epoch, historyVars>>

\* audio clips and recognition results handed to the cache
CacheAudio == {<<9830>>, <<1638>>, <<9830, 1638>>}
CacheTexts == {"text", None}

\* _save_recording_file called on its own
cache_put(audio_data, recognized_text, writeFails, stuck) ==
  /\ scenario = "cache"
  /\ recording_stats.total_recordings < MaxPuts
  /\ LET r == save_recording_file(recording_cache_index, cache_files,
                                  audio_data, recognized_text, epoch,
                                  actual_speech_duration, writeFails, stuck)
     IN /\ recording_cache_index' = r.index
        /\ cache_files' = r.files
        /\ recording_stats' = StatsAfterSave(recording_stats, r, recognized_text)
  /\ UNCHANGED <<configVars, stopPc, silence_elapsed, capPc, recording_active,
                 is_paused, audio_buffer, speech_segments,
                 is_recording_speech, is_processing, actual_speech_duration,
                 consecutive_speech_count, queueVars, workerVars, aiThreads,
                 epoch, historyVars>>

\* a second of wall-clock time passes; in the pipeline only the worker's
\* _save_recording_file reads the clock
tick ==
  /\ epoch < MaxEpoch
  /\ scenario = "cache" \/ wPc = "save"
  /\ epoch' = epoch + 1
  /\ UNCHANGED <<configVars, stopPc, captureVars, queueVars, workerVars, aiThreads,
                 recording_cache_index, cache_files, historyVars>>

(***************************************************************************)
(* Capture thread: audio_callback and what it calls.                       *)
(***************************************************************************)
\* line 329: consecutive_speech_count >= speech_confirmation_threshold
SpeechConfirmed(count) == count >= speech_confirmation_threshold

\* a timeout that has run out at any window
SilenceTimedOutAtOnce(elapsed) == elapsed >= 0

\* line 368: current_time - last_active_time > silence_timeout
SilenceTimedOut(elapsed) == elapsed > silence_timeout

\* the difference one block later; beyond the timeout its value is not told
\* apart by any comparison of the code
Elapse(elapsed) == IF elapsed > silence_timeout THEN elapsed ELSE elapsed + BlockMs


\* lines 341-342: only a speech-candidate window adds to the speech duration
SpeechDurationAlways(dur, cand) == dur + WindowMs
SpeechDurationDouble(dur, cand) == IF cand THEN dur + 2 * WindowMs ELSE dur
SpeechDurationAfter(dur, cand) == IF cand THEN dur + WindowMs ELSE dur

\* line 372 with a strict comparison
UtteranceValidStrict(dur, min) == dur > min
\* every ended utterance counts as valid
UtteranceValidAlways(dur, min) == TRUE
\* line 372: actual_speech_duration >= min_speech_duration
UtteranceValid(dur, min) == dur >= min

\* a get that hands out the head and empties the queue
QueueGetDrains(q) == [item |-> Head(q), rest |-> <<>>]

\* queue.Queue.get: the item put first
QueueGetLast(q) == [item |-> q[Len(q)], rest |-> SubSeq(q, 1, Len(q) - 1)]
QueueGet(q) == [item |-> Head(q), rest |-> Tail(q)]

\* queue.Queue.put_nowait raises Full; maxsize <= 0 never does
QueueNeverFull(q, maxsize) == FALSE
QueueFull(q, maxsize) == maxsize > 0 /\ Len(q) >= maxsize

DispatchItem(mono, len, dur, utt) ==
  [audio |-> mono, length |-> len, speech |-> dur, utt |-> utt]

\* The shape of the audio delivered so far, for the hysteresis property:
\* "quiet" while only non-speech blocks came, "burst" inside one detection
\* window of speech blocks that began on an empty buffer, "after" once only
\* non-speech blocks have followed that one window, "void" otherwise.
IsSpeechBlock(b) == b[3] /\ AmplitudeAboveThreshold(<<b>>)
IsolatedNext(iso, b, buf) ==
  CASE iso.phase = "quiet" ->
         IF ~IsSpeechBlock(b) /\ ~b[3] THEN iso
         ELSE IF IsSpeechBlock(b) /\ buf = <<>> THEN [phase |-> "burst", n |-> 1]
         ELSE [phase |-> "void", n |-> 0]
    [] iso.phase = "burst" ->
         IF IsSpeechBlock(b) /\ ~BufferReady(buf)
           THEN [phase |-> "burst", n |-> iso.n + 1]
         ELSE IF ~b[3] /\ ~IsSpeechBlock(b) /\ BufferReady(buf)
           THEN [phase |-> "after", n |-> iso.n]
         ELSE [phase |-> "void", n |-> 0]
    [] iso.phase = "after" ->
         IF ~b[3] /\ ~IsSpeechBlock(b) THEN iso ELSE [phase |-> "void", n |-> 0]
    [] OTHER -> iso

\* process_speech_segments, lines 396-440, called with the segments and the
\* speech duration of the utterance being finalized.  wavFails: the debug
\* WAV of the ASR-disabled branch cannot be written.
process_speech_segments(segs, dur, wavFails) ==
  IF segs = <<>> \/ is_processing
  THEN UNCHANGED <<speech_segments, asr_queue, asr_stats>>
  ELSE
    LET combined_audio == Concat(segs)
        mono_audio == stereo_to_mono(combined_audio)
        audio_length == AudioLengthMs(mono_audio)
        audio_item == DispatchItem(mono_audio, audio_length, dur, uttCount + 1)
    IN IF enable_asr /\ speech_recognizer # None
       THEN /\ IF QueueFull(asr_queue, asr_queue_size)
               THEN /\ asr_stats' = [asr_stats EXCEPT !.dropped = @ + 1]
                    /\ UNCHANGED asr_queue
               ELSE /\ asr_queue' = Append(asr_queue, audio_item)
                    /\ asr_stats' = [asr_stats EXCEPT !.queued = @ + 1]
            /\ speech_segments' = <<>>
       ELSE \* save_wav_file on None raises AttributeError; a failed write
            \* raises too: both skip the clear of line 435
            /\ speech_segments' =
                 IF speech_recognizer = None \/ wavFails THEN segs ELSE <<>>
            /\ UNCHANGED <<asr_queue, asr_stats>>

\* a finalization that leaves the gate as it was
PausedOnFinalizeSkips(paused) == paused

\* line 374: self.is_paused = True, ahead of process_speech_segments
PausedOnFinalize(paused) == TRUE

\* What can fail while one block is handled: nothing; the oracle
\* (check_vad_activity catches it and answers False, vad_processor.py lines
\* 91-93); calculate_audio_amplitude (line 316, not caught before
\* audio_callback); the conversion of the block (lines 276-284).
Faults == {"none", "vad", "amplitude", "convert"}

\* the exception leaves audio_callback and ends the stream
AfterExceptionPropagates(pc) == "aborted"

\* lines 294-295: except Exception: print; the callback returns
AfterException(pc) == pc

\* the record of an evaluation in lastWindow
WindowRecord(raw, cand, fault) ==
  [n |-> 1 - lastWindow.n, raw |-> raw, cand |-> cand, fault |-> fault,
   faults |-> lastWindow.faults + (IF fault = "none" THEN 0 ELSE 1)]

\* process_audio_buffer, lines 297-394, on the buffer buf at time now
process_audio_buffer(buf, elapsed, wavFails, fault) ==
  LET raw_audio == buf
      vad_result == IF fault = "vad" THEN FALSE ELSE check_vad_activity(raw_audio)
      cand == vad_result /\ AmplitudeAboveThreshold(raw_audio)
      count1 == IF cand THEN consecutive_speech_count + 1 ELSE 0
      starts == cand /\ ~is_recording_speech /\ SpeechConfirmed(count1)
      unconfirmed == cand /\ ~is_recording_speech /\ ~SpeechConfirmed(count1)
      rec1 == is_recording_speech \/ starts
      segs0 == IF starts THEN <<>> ELSE speech_segments
      dur0 == IF starts THEN 0 ELSE actual_speech_duration
      segs1 == IF rec1 THEN Append(segs0, raw_audio) ELSE segs0
      dur1 == SpeechDurationAfter(dur0, cand)
      \* line 340: last_active_time = current_time
      elapsed1 == IF cand THEN 0 ELSE elapsed
      ends == rec1 /\ SilenceTimedOut(elapsed1) /\ ~is_processing
  IN
  /\ lastWindow' = WindowRecord(raw_audio, cand /\ fault # "amplitude", fault)
  /\ consecutive_speech_count' =
       IF fault = "amplitude" THEN consecutive_speech_count ELSE count1
  /\ IF fault = "amplitude"
     THEN \* line 316 raises: nothing below it runs, the buffer is not cleared
          /\ audio_buffer' = buf
          /\ silence_elapsed' = elapsed
          /\ capPc' = AfterException(capPc)
          /\ UNCHANGED <<is_paused, speech_segments,
                         is_recording_speech, actual_speech_duration,
                         recording_stats, asr_queue, asr_stats, uttCount,
                         lastEnd, resumeCalls>>
     ELSE IF unconfirmed
     THEN \* line 337: return before the buffer is cleared
          /\ audio_buffer' = buf
          /\ silence_elapsed' = elapsed
          /\ UNCHANGED <<capPc, is_paused, speech_segments,
                         is_recording_speech, actual_speech_duration,
                         recording_stats, asr_queue, asr_stats, uttCount,
                         lastEnd, resumeCalls>>
     ELSE IF ~ends
     THEN /\ is_recording_speech' = rec1
          /\ speech_segments' = segs1
          /\ actual_speech_duration' = dur1
          /\ silence_elapsed' = elapsed1
          /\ audio_buffer' = <<>>
          /\ UNCHANGED <<capPc, is_paused, recording_stats, asr_queue,
                         asr_stats, uttCount, lastEnd, resumeCalls>>
     ELSE IF UtteranceValid(dur1, min_speech_duration)
     THEN \* lines 374-376; lines 384-394 follow in finish_utterance
          /\ is_paused' = PausedOnFinalize(is_paused)
          /\ process_speech_segments(segs1, dur1, wavFails)
          /\ uttCount' = uttCount + 1
          /\ resumeCalls' = Append(resumeCalls, 0)
          /\ lastEnd' = [n |-> 1 - lastEnd.n, dur |-> dur1,
                         total |-> AudioLengthMs(stereo_to_mono(Concat(segs1)))]
          /\ capPc' = "reset"
          /\ is_recording_speech' = rec1
          /\ actual_speech_duration' = dur1
          /\ silence_elapsed' = elapsed1
          /\ audio_buffer' = buf
          /\ UNCHANGED recording_stats
     ELSE \* lines 379-394: too short
          /\ recording_stats' = [recording_stats EXCEPT !.short_recordings = @ + 1]
          /\ speech_segments' = <<>>
          /\ is_recording_speech' = FALSE
          /\ actual_speech_duration' = 0
          /\ silence_elapsed' = elapsed1
          /\ audio_buffer' = <<>>
          /\ lastEnd' = [n |-> 1 - lastEnd.n, dur |-> dur1,
                         total |-> AudioLengthMs(stereo_to_mono(Concat(segs1)))]
          /\ UNCHANGED <<capPc, is_paused, asr_queue, asr_stats, uttCount,
                         resumeCalls>>

RECURSIVE NoiseBlocks(_)
NoiseBlocks(raw) ==
  IF raw = <<>> THEN 0
  ELSE (IF Head(raw)[3] /\ ~IsSpeechBlock(Head(raw)) THEN 1 ELSE 0)
       + NoiseBlocks(Tail(raw))

\* What the environment delivers.  Everywhere: an utterance holds at most
\* MaxSpeechWindows speech windows and a run at most the scenario's number
\* of utterances.  In the segmentation scenario blocks of speech, silence
\* and noise mix freely (noise up to MaxNoiseBlocks per utterance).  In the
\* pipeline, delivery and faults scenarios the speaker is plain: speech and silence only, whole
\* windows of one kind, and each utterance one unbroken run of speech.
WithinSpeechBudget(buf) ==
  (IsSpeechCandidate(buf) /\ scenario # "example") =>
    IF is_recording_speech
    THEN actual_speech_duration < MaxSpeechWindows * WindowMs
    ELSE uttCount + recording_stats.short_recordings
           < (IF scenario = "pipeline" THEN MaxUtterances
              ELSE IF scenario = "delivery" THEN DeliveryUtterances
              ELSE SegUtterances)

\* The worked example: 3 non-speech windows, 4 speech windows at amplitude
\* 0.3, 6 non-speech windows; after that MaxTrailing more blocks, silence
\* while capture listens and anything (playback echo) while it is paused.
BlocksPerWindow ==
  CHOOSE n \in 1..WindowMs : BufferReady([i \in 1..n |-> SilenceIn])
                               /\ ~BufferReady([i \in 1..(n - 1) |-> SilenceIn])
Repeat(x, n) == [i \in 1..n |-> x]
ExampleScript ==
  Repeat(SilenceIn, 3 * BlocksPerWindow) \o Repeat(SpeechIn, 4 * BlocksPerWindow)
    \o Repeat(SilenceIn, 6 * BlocksPerWindow)

EnvAllows(indata) ==
  LET b == ConvertBlock(indata) IN
  IF scenario = "example"
  THEN IF fed < Len(ExampleScript) THEN indata = ExampleScript[fed + 1]
       ELSE /\ fed < Len(ExampleScript) + MaxTrailing
            /\ is_paused \/ indata = SilenceIn
  ELSE IF is_paused THEN indata = SilenceIn
  ELSE IF scenario = "faults"
  THEN /\ indata \in {SpeechIn, SilenceIn}
       /\ audio_buffer # <<>> => b = audio_buffer[Len(audio_buffer)]
       /\ (is_recording_speech /\ audio_buffer = <<>> /\ silence_elapsed # 0)
            => indata = SilenceIn
  ELSE IF scenario = "segmentation"
  THEN indata = NoiseIn =>
         NoiseBlocks(Concat(speech_segments) \o audio_buffer) < MaxNoiseBlocks
  ELSE /\ indata \in {SpeechIn, SilenceIn}
       /\ (audio_buffer # <<>> /\ ~BufferReady(audio_buffer))
            => b = audio_buffer[Len(audio_buffer)]
       /\ (audio_buffer # <<>> /\ BufferReady(audio_buffer)) => indata = SpeechIn
       /\ (is_recording_speech /\ audio_buffer = <<>> /\ silence_elapsed # 0)
            => indata = SilenceIn

\* lines 265-269: a block that arrives while capture is paused
PausedBufferKeeps(buf, block) == Append(buf, block)
PausedBuffer(buf, block) == <<>>

\* the failures a run injects: in the scenario "faults" only, MaxFaults at
\* most, none while capture is paused, and a failed evaluation only when the
\* buffer has reached the window length
FaultAllowed(fault, buf) ==
  fault # "none" =>
    /\ scenario = "faults"
    /\ ~is_paused
    /\ lastWindow.faults < MaxFaults
    /\ fault \in {"vad", "amplitude"} => BufferReady(buf)

\* audio_callback, lines 261-295: one block from the device
audio_callback(indata, wavFails, fault) ==
  /\ recording_active
  /\ capPc = "callback"
  /\ EnvAllows(indata)
  /\ FaultAllowed(fault, Append(audio_buffer, ConvertBlock(indata)))
  /\ fed' = IF scenario = "example" THEN fed + 1 ELSE fed
  /\ UNCHANGED <<configVars, stopPc, recording_active, is_processing,
                 asr_consumer_active, workerVars, aiThreads, cacheVars,
                 processedLog>>
  /\ IF is_paused
     THEN /\ audio_buffer' = PausedBuffer(audio_buffer, ConvertBlock(indata))
          /\ silence_elapsed' = Elapse(silence_elapsed)
          /\ UNCHANGED <<capPc, is_paused, speech_segments,
                         is_recording_speech, actual_speech_duration,
                         consecutive_speech_count, recording_stats, asr_queue,
                         asr_stats, uttCount, lastEnd, lastWindow, isolated,
                         resumeCalls>>
     ELSE LET buf == Append(audio_buffer, ConvertBlock(indata)) IN
          /\ isolated' = IsolatedNext(isolated, ConvertBlock(indata), audio_buffer)
          /\ IF fault = "convert"
             THEN \* lines 276-284 raise: the block is lost
                  /\ silence_elapsed' = Elapse(silence_elapsed)
                  /\ capPc' = AfterException(capPc)
                  /\ lastWindow' =
                       [lastWindow EXCEPT !.fault = fault, !.faults = @ + 1]
                  /\ UNCHANGED <<audio_buffer, is_paused,
                                 speech_segments, is_recording_speech,
                                 actual_speech_duration,
                                 consecutive_speech_count, recording_stats,
                                 asr_queue, asr_stats, uttCount, lastEnd,
                                 resumeCalls>>
             ELSE IF BufferReady(buf)
             THEN /\ WithinSpeechBudget(buf)
                  /\ process_audio_buffer(buf, Elapse(silence_elapsed), wavFails,
                                          fault)
             ELSE /\ audio_buffer' = buf
                  /\ silence_elapsed' = Elapse(silence_elapsed)
                  /\ UNCHANGED <<capPc, is_paused,
                                 speech_segments, is_recording_speech,
                                 actual_speech_duration,
                                 consecutive_speech_count, recording_stats,
                                 asr_queue, asr_stats, uttCount, lastEnd,
                                 lastWindow, resumeCalls>>

\* process_audio_buffer, lines 384-394, after a valid utterance was handed on
finish_utterance ==
  /\ capPc = "reset"
  /\ capPc' = "callback"
  /\ is_recording_speech' = FALSE
  /\ actual_speech_duration' = 0
  /\ audio_buffer' = <<>>
  /\ UNCHANGED <<configVars, stopPc, silence_elapsed, recording_active, is_paused,
                 speech_segments, is_processing,
                 consecutive_speech_count, recording_stats, queueVars,
                 workerVars, aiThreads, cacheVars, historyVars>>

Capture ==
  \/ \E indata \in BlockInputs, wavFails \in BOOLEAN, fault \in Faults :
       audio_callback(indata, wavFails, fault)
  \/ finish_utterance

(***************************************************************************)
(* The capture gate.                                                       *)
(***************************************************************************)
\* resume_recording, lines 517-522, called on behalf of utterance utt
ResumedGate(paused) == FALSE

resume_recording(utt) ==
  /\ is_paused' = (IF is_paused THEN ResumedGate(is_paused) ELSE is_paused)
  /\ resumeCalls' = [resumeCalls EXCEPT ![utt] = @ + 1]

\* _ensure_recording_resumed, lines 524-527
ensure_recording_resumed(utt) ==
  IF is_paused THEN resume_recording(utt)
  ELSE UNCHANGED <<is_paused, resumeCalls>>

(***************************************************************************)
(* Worker thread: asr_consumer_worker, lines 442-507.                      *)
(***************************************************************************)
RecognizerOutcomes == {"text", "none", "error", "fatal"}

\* a loop that only the sentinel ends
LoopTestAlways(active) == TRUE

\* line 446: while self.asr_consumer_active
LoopTest(active) == active

\* lines 446-456: the loop test, the blocking get and the sentinel test.  A
\* worker that finds the flag cleared at the loop test leaves; one that was
\* already inside get() when the flag was cleared still takes what is queued.
worker_get(inGet) ==
  /\ wPc = "get"
  /\ inGet => asr_queue # <<>>
  /\ ~inGet => ~LoopTest(asr_consumer_active)
  /\ IF ~inGet
     THEN /\ wPc' = "exited"
          /\ UNCHANGED <<asr_queue, asr_stats, wItem, processedLog>>
     ELSE /\ asr_queue' = QueueGet(asr_queue).rest
          /\ IF IsSentinel(QueueGet(asr_queue).item)
             THEN /\ wPc' = "exited"
                  /\ UNCHANGED <<asr_stats, wItem, processedLog>>
             ELSE /\ wItem' = QueueGet(asr_queue).item
                  /\ asr_stats' = [asr_stats EXCEPT !.processed = @ + 1]
                  /\ processedLog' =
                       Append(processedLog,
                              [utt |-> QueueGet(asr_queue).item.utt,
                               waiting |-> Len(asr_queue) - 1,
                               raised |-> "no"])
                  /\ wPc' = "recognize"
  /\ UNCHANGED <<configVars, stopPc, captureVars, asr_consumer_active, wText, wFile,
                 aiThreads, cacheVars, uttCount, lastEnd, lastWindow,
                 isolated, fed, resumeCalls>>

\* line 461: recognize_from_memory returns a text or None, or raises
worker_recognize(outcome) ==
  /\ wPc = "recognize"
  /\ wText' = (IF outcome = "none" THEN None ELSE outcome)
  /\ wPc' = (IF outcome \in {"error", "fatal"} THEN "except" ELSE "save")
  /\ UNCHANGED <<configVars, stopPc, captureVars, queueVars, wItem, wFile, aiThreads,
                 cacheVars, historyVars>>

\* line 464: _save_recording_file(audio_data, recognized_text)
worker_save(writeFails, stuck) ==
  /\ wPc = "save"
  /\ LET r == save_recording_file(recording_cache_index, cache_files,
                                  wItem.audio, wText, epoch,
                                  actual_speech_duration, writeFails, stuck)
     IN /\ wFile' = r.path
        /\ recording_cache_index' = r.index
        /\ cache_files' = r.files
        /\ recording_stats' = StatsAfterSave(recording_stats, r, wText)
  /\ wPc' = "report"
  /\ UNCHANGED <<configVars, stopPc, silence_elapsed, capPc, recording_active,
                 is_paused, audio_buffer, speech_segments,
                 is_recording_speech, is_processing, actual_speech_duration,
                 consecutive_speech_count, queueVars, wItem, wText, aiThreads,
                 epoch, historyVars>>

\* lines 466-493: report, resume after a failed recognition, result callback
\* (VoiceChatSystem.on_recognition_result starts process_ai_response)
worker_report ==
  /\ wPc = "report"
  /\ IF wFile # NoPath /\ ~TextOk(wText)
     THEN /\ recording_stats' =
               [recording_stats EXCEPT !.failed_recognitions = @ + 1]
          /\ ensure_recording_resumed(wItem.utt)
     ELSE UNCHANGED <<recording_stats, is_paused, resumeCalls>>
  /\ aiThreads' = IF TextOk(wText)
                  THEN aiThreads \cup {[utt |-> wItem.utt, pc |-> "respond"]}
                  ELSE aiThreads
  /\ wPc' = "get"
  /\ wItem' = NoItem
  /\ wText' = None
  /\ wFile' = NoPath
  /\ UNCHANGED <<configVars, stopPc, silence_elapsed, capPc, recording_active,
                 audio_buffer, speech_segments, is_recording_speech,
                 is_processing, actual_speech_duration,
                 consecutive_speech_count, queueVars, cacheVars, uttCount,
                 lastEnd, lastWindow, isolated, fed, processedLog>>

\* every exception stops the worker
IsFatalAlways(kind) == TRUE

\* no exception stops the worker
IsFatalNever(kind) == FALSE

\* line 502: "memory" or "model" in the lower-cased message
IsFatal(kind) == kind = "fatal"

\* lines 497-506: the handler of an exception raised while processing
worker_except ==
  /\ wPc = "except"
  /\ ensure_recording_resumed(wItem.utt)
  /\ IF IsFatal(wText)
     THEN asr_consumer_active' = FALSE /\ wPc' = "exited"
     ELSE asr_consumer_active' = asr_consumer_active /\ wPc' = "get"
  /\ wItem' = NoItem
  /\ wText' = None
  /\ processedLog' = [processedLog EXCEPT ![Len(processedLog)].raised = wText]
  /\ UNCHANGED <<configVars, stopPc, silence_elapsed, capPc, recording_active,
                 audio_buffer, speech_segments, is_recording_speech,
                 is_processing, actual_speech_duration,
                 consecutive_speech_count, recording_stats, asr_queue,
                 asr_stats, wFile, aiThreads, cacheVars, uttCount, lastEnd,
                 lastWindow, isolated, fed>>

Worker ==
  \/ \E inGet \in BOOLEAN : worker_get(inGet)
  \/ \E outcome \in RecognizerOutcomes : worker_recognize(outcome)
  \/ \E writeFails \in BOOLEAN, stuck \in {{}, FileNames(cache_files)} :
       worker_save(writeFails, stuck)
  \/ worker_report
  \/ worker_except

(***************************************************************************)
(* The caller of stop_recording, lines 559-583.                            *)
(***************************************************************************)
\* lines 561-570: recording_active is cleared and the stream closed
stop_begin ==
  /\ scenario = "shutdown"
  /\ stopPc = "running"
  /\ recording_active' = FALSE
  /\ stopPc' = IF enable_asr THEN "flag" ELSE "done"
  /\ UNCHANGED <<configVars, silence_elapsed, capPc, is_paused, audio_buffer,
                 speech_segments, is_recording_speech, is_processing,
                 actual_speech_duration, consecutive_speech_count,
                 recording_stats, queueVars, workerVars, aiThreads, cacheVars,
                 historyVars>>

\* line 573: asr_consumer_active = False
stop_flag ==
  /\ stopPc = "flag"
  /\ asr_consumer_active' = FALSE
  /\ stopPc' = "put"
  /\ UNCHANGED <<configVars, captureVars, asr_queue, asr_stats, workerVars,
                 aiThreads, cacheVars, historyVars>>

\* lines 574-581: put_nowait(None); queue.Full skips the join
stop_put ==
  /\ stopPc = "put"
  /\ IF QueueFull(asr_queue, asr_queue_size)
     THEN /\ stopPc' = "done"
          /\ UNCHANGED asr_queue
     ELSE /\ asr_queue' = Append(asr_queue, NoItem)
          /\ stopPc' = IF wPc # "exited" THEN "join" ELSE "done"
  /\ UNCHANGED <<configVars, captureVars, asr_stats, asr_consumer_active,
                 workerVars, aiThreads, cacheVars, historyVars>>

\* line 579: asr_thread.join(timeout=2.0) returns when the worker has ended
\* or when the timeout has passed
stop_join(timedOut) ==
  /\ stopPc = "join"
  /\ timedOut \/ wPc = "exited"
  /\ stopPc' = "done"
  /\ UNCHANGED <<configVars, captureVars, queueVars, workerVars, aiThreads,
                 cacheVars, historyVars>>

Stop ==
  \/ stop_begin
  \/ stop_flag
  \/ stop_put
  \/ \E timedOut \in BOOLEAN : stop_join(timedOut)

(***************************************************************************)
(* Response thread: process_ai_response of main.py, lines 170-258.         *)
(***************************************************************************)
AiFrame == <<configVars, stopPc, silence_elapsed, capPc, recording_active,
             audio_buffer, speech_segments, is_recording_speech,
             is_processing, actual_speech_duration, consecutive_speech_count,
             recording_stats, queueVars, workerVars, cacheVars, uttCount,
             lastEnd, lastWindow, isolated, fed, processedLog>>

\* lines 171-193 and 240-258: the response is generated; without TTS, or when
\* generating it raises, capture is resumed at once
ai_respond(t, raises) ==
  /\ t \in aiThreads
  /\ t.pc = "respond"
  /\ IF raises \/ ~tts_enabled
     THEN /\ resume_recording(t.utt)
          /\ aiThreads' = aiThreads \ {t}
     ELSE /\ aiThreads' = (aiThreads \ {t}) \cup {[t EXCEPT !.pc = "tts"]}
          /\ UNCHANGED <<is_paused, resumeCalls>>
  /\ UNCHANGED AiFrame

\* lines 202-229: synthesis and playback, then the finally clause
ai_tts(t, raises) ==
  /\ t \in aiThreads
  /\ t.pc = "tts"
  /\ resume_recording(t.utt)
  /\ aiThreads' = IF raises
                  THEN (aiThreads \ {t}) \cup {[t EXCEPT !.pc = "tts_failed"]}
                  ELSE aiThreads \ {t}
  /\ UNCHANGED AiFrame

\* lines 230-239: the handler of a failed synthesis
ai_tts_except(t) ==
  /\ t \in aiThreads
  /\ t.pc = "tts_failed"
  /\ resume_recording(t.utt)
  /\ aiThreads' = aiThreads \ {t}
  /\ UNCHANGED AiFrame

Response ==
  \/ \E t \in aiThreads, raises \in BOOLEAN : ai_respond(t, raises)
  \/ \E t \in aiThreads, raises \in BOOLEAN : ai_tts(t, raises)
  \/ \E t \in aiThreads : ai_tts_except(t)

(***************************************************************************)
(* Initial states: the recorder after __init__ and set_callbacks, with the *)
(* worker thread of start_recording at its loop head.                      *)
(***************************************************************************)
\* the fields of a recorder just constructed, cache aside
InitState ==
  /\ silence_elapsed = 0
  /\ capPc = "callback"
  /\ recording_active = TRUE
  /\ is_paused = FALSE
  /\ audio_buffer = <<>>
  /\ speech_segments = <<>>
  /\ is_recording_speech = FALSE
  /\ is_processing = FALSE
  /\ actual_speech_duration = 0
  /\ consecutive_speech_count = 0
  /\ recording_stats = [total_recordings |-> 0, successful_recognitions |-> 0,
                        failed_recognitions |-> 0, short_recordings |-> 0,
                        cached_files |-> Len(recording_cache_index)]
  /\ asr_queue = <<>>
  /\ asr_stats = [queued |-> 0, processed |-> 0, dropped |-> 0]
  /\ asr_consumer_active = TRUE
  /\ wPc = IF enable_asr THEN "get" ELSE "none"
  /\ wItem = NoItem
  /\ wText = None
  /\ wFile = NoPath
  /\ aiThreads = {}
  /\ uttCount = 0
  /\ lastEnd = [n |-> 0, dur |-> 0, total |-> 0]
  /\ lastWindow = [n |-> 0, raw |-> <<>>, cand |-> FALSE, fault |-> "none",
                   faults |-> 0]
  /\ isolated = [phase |-> "quiet", n |-> 0]
  /\ fed = 0
  /\ resumeCalls = <<>>
  /\ processedLog = <<>>
  /\ stopPc = "running"

\* a recorder constructed on an empty cache directory
InitCapture ==
  /\ recording_cache_index = <<>>
  /\ cache_files = {}
  /\ epoch = 0
  /\ InitState

\* enable_asr and speech_recognizer after __init__, lines 107-111: ASR on with
\* a loaded model, switched off because the model did not load, or off
AsrConfigs == {<<TRUE, "loaded">>, <<FALSE, "loaded">>, <<FALSE, None>>}

Init ==
  /\ scenario = "pipeline"
  /\ \E c \in AsrConfigs : enable_asr = c[1] /\ speech_recognizer = c[2]
  /\ tts_enabled \in BOOLEAN
  /\ min_speech_duration = 600
  /\ asr_queue_size \in {QueueSmall, QueueLarge}
  /\ InitCapture

\* a run that is shut down: one utterance at most, then stop_recording
InitStop ==
  /\ scenario = "shutdown"
  /\ \E c \in AsrConfigs : enable_asr = c[1] /\ speech_recognizer = c[2]
  /\ tts_enabled \in BOOLEAN
  /\ min_speech_duration = 600
  /\ asr_queue_size \in {QueueSmall, QueueLarge}
  /\ InitCapture

\* the worked example: ASR on, the constructor's default minimum of 0.5 s
InitExample ==
  /\ scenario = "example"
  /\ enable_asr = TRUE
  /\ speech_recognizer = "loaded"
  /\ tts_enabled \in BOOLEAN
  /\ min_speech_duration = 500
  /\ asr_queue_size \in {QueueSmall, QueueLarge}
  /\ InitCapture

InitSeg ==
  /\ scenario = "segmentation"
  /\ \E c \in AsrConfigs : enable_asr = c[1] /\ speech_recognizer = c[2]
  /\ tts_enabled = TRUE
  /\ min_speech_duration \in {500, 600}
  /\ asr_queue_size = QueueSmall
  /\ InitCapture

\* the pipeline with ASR on, for the delivery of queued items to the worker
InitDelivery ==
  /\ scenario = "delivery"
  /\ enable_asr = TRUE
  /\ speech_recognizer = "loaded"
  /\ tts_enabled \in BOOLEAN
  /\ min_speech_duration = 600
  /\ asr_queue_size = QueueSmall
  /\ InitCapture

\* the capture thread with failing calls
InitFault ==
  /\ scenario = "faults"
  /\ enable_asr = TRUE
  /\ speech_recognizer = "loaded"
  /\ tts_enabled = TRUE
  /\ min_speech_duration = 600
  /\ asr_queue_size = QueueSmall
  /\ InitCapture

\* The cache alone: the index and the files a prior run left behind (rows
\* with distinct keys, each naming the file the prior run wrote for it, some
\* files since deleted), loaded by _load_recording_cache_index.
PriorRow(audio_data, created) ==
  [hash |-> get_recording_hash(audio_data),
   filename |-> RecordingFilename(created, get_recording_hash(audio_data)),
   created |-> created,
   text |-> "text",
   duration |-> AudioLengthMs(audio_data),
   speech_duration |-> 0,
   size |-> MonoBytes(audio_data),
   recognition_success |-> TRUE]

PriorIndexes ==
  {[i \in 1..Len(a) |-> PriorRow(a[i], c[i])] :
     <<a, c>> \in UNION {{<<x, y>> : x \in {z \in [1..n -> CacheAudio] :
                                              \A i, j \in 1..n :
                                                i # j => z[i] # z[j]},
                                     y \in [1..n -> {0, 1}]} :
                         n \in 0..(max_cache_files + 1)}}

PriorFile(row) == [name |-> row.filename, audio |-> row.hash[2]]

InitCache ==
  /\ scenario = "cache_startup"
  /\ enable_asr = TRUE
  /\ speech_recognizer = "loaded"
  /\ tts_enabled = TRUE
  /\ min_speech_duration = 500
  /\ asr_queue_size = QueueSmall
  /\ \E index \in PriorIndexes :
       \E present \in SUBSET (1..Len(index)) :
         /\ recording_cache_index = index
         /\ cache_files = {PriorFile(index[i]) : i \in present}
  /\ InitState
  /\ epoch = 1

Cache ==
  \/ \E stuck \in SUBSET FileNames(cache_files) : init_cleanup(stuck)
  \/ \E audio_data \in CacheAudio, recognized_text \in CacheTexts,
        writeFails \in BOOLEAN, stuck \in {{}, FileNames(cache_files)} :
       cache_put(audio_data, recognized_text, writeFails, stuck)
  \/ tick

CacheSpec == InitCache /\ [][Cache]_vars

Next == Capture \/ Worker \/ Response \/ tick

Spec == Init /\ [][Next]_vars

SegSpec == InitSeg /\ [][Capture]_vars

FaultSpec == InitFault /\ [][Capture]_vars

ExampleSpec == InitExample /\ [][Next]_vars

\* a run that stop_recording ends at any moment; the worker is scheduled,
\* the calls it makes return, and the caller of stop_recording is scheduled
StopNext == Next \/ Stop

StopSpec ==
  InitStop /\ [][StopNext]_vars /\ WF_vars(Worker) /\ WF_vars(Stop)

\* threads are scheduled and the calls they make return
FairSpec ==
  Spec /\ WF_vars(Capture) /\ WF_vars(Worker) /\ WF_vars(Response)

\* the three threads of the pipeline, scheduled fairly, in a run without
\* shutdown
DeliveryNext == Capture \/ Worker \/ Response

DeliverySpec ==
  InitDelivery /\ [][DeliveryNext]_vars
    /\ WF_vars(Capture) /\ WF_vars(Worker) /\ WF_vars(Response)

(***************************************************************************)
(* Properties.                                                             *)
(***************************************************************************)
Utterances == 1..uttCount

Processed(u) == \E i \in 1..Len(processedLog) : processedLog[i].utt = u

\* u is with the worker, or a response thread of u has not ended
Held(u) == wItem.utt = u \/ \E t \in aiThreads : t.utt = u

\* downstream processing of u has run to its end
Finished(u) == Processed(u) /\ ~Held(u)

\* u waits in the queue, is with the worker, or its response is being
\* generated or played
InFlight(u) ==
  \/ \E i \in 1..Len(asr_queue) : asr_queue[i].utt = u
  \/ wItem.utt = u
  \/ \E t \in aiThreads : t.utt = u /\ t.pc \in {"respond", "tts"}

\* C1: resume_recording is called exactly once for every utterance that
\* paused capture: never more than once, and once by the time the downstream
\* processing of the utterance has ended, whichever branch ran.
C1_ResumedExactlyOnce ==
  \A u \in Utterances :
    /\ resumeCalls[u] <= 1
    /\ Finished(u) => resumeCalls[u] = 1

\* C2: capture never stays paused forever: every state with paused true is
\* followed by a state with paused false, also when the utterance was
\* dropped on a full queue or finalized while ASR is disabled.
C2_PauseAlwaysEnds == is_paused ~> ~is_paused

\* C3: while an utterance is in flight (queued, being recognized, its
\* response generated or played) capture stays paused; no resume of another
\* thread clears the pause.
C3_PausedWhileInFlight == \A u \in Utterances : InFlight(u) => is_paused

\* C4: an utterance starts only at the second of two consecutive
\* speech-positive evaluations, and one isolated speech-positive window
\* followed only by non-speech audio never starts an utterance.
C4_IsolatedWindowNeverStarts ==
  [][/\ (~is_recording_speech /\ is_recording_speech')
          => (lastWindow.cand /\ lastWindow'.cand /\ lastWindow'.n # lastWindow.n)
     /\ isolated'.phase = "after" => ~is_recording_speech']_vars

\* the step in which an utterance ends
EndStep == lastEnd'.n # lastEnd.n

ShortDiscarded ==
  /\ asr_queue' = asr_queue
  /\ asr_stats' = asr_stats
  /\ uttCount' = uttCount
  /\ recording_stats'.short_recordings = recording_stats.short_recordings + 1

Enqueued ==
  /\ Len(asr_queue') = Len(asr_queue) + 1
  /\ SubSeq(asr_queue', 1, Len(asr_queue)) = asr_queue
  /\ asr_queue'[Len(asr_queue')].speech = lastEnd'.dur
  /\ asr_queue'[Len(asr_queue')].utt = uttCount'
  /\ asr_stats'.queued = asr_stats.queued + 1

\* C5 as stated: at the end of an utterance, a speech duration below the
\* minimum discards it without queueing, and a speech duration of at least
\* the minimum (equal included) always puts it on the dispatch queue.
C5_ValidAlwaysQueued ==
  [][EndStep =>
       IF lastEnd'.dur < min_speech_duration THEN ShortDiscarded
       ELSE Enqueued]_vars

\* C5, amended: a speech duration below the minimum discards the utterance
\* without queueing; one of at least the minimum (equal included) is put on
\* the dispatch queue when ASR is enabled and the queue has room, and
\* otherwise leaves the queue as it was.
C5_ValidQueuedWhenRoom ==
  [][EndStep =>
       IF lastEnd'.dur < min_speech_duration THEN ShortDiscarded
       ELSE /\ uttCount' = uttCount + 1
            /\ recording_stats' = recording_stats
            /\ IF enable_asr /\ speech_recognizer # None
                  /\ Len(asr_queue) < asr_queue_size
               THEN Enqueued
               ELSE asr_queue' = asr_queue
                    /\ asr_stats'.queued = asr_stats.queued]_vars

C5_Witness ==
  /\ recording_stats.short_recordings > 0
  /\ lastEnd.dur = min_speech_duration
  /\ asr_queue # <<>>
  /\ asr_queue[Len(asr_queue)].speech = min_speech_duration
  /\ asr_queue[Len(asr_queue)].utt = uttCount

\* C6: while recording, a non-speech window is appended to the segments and
\* does not increase the speech duration (the duration handed on at the end
\* of the utterance included); the speech duration of a running utterance
\* changes only at speech-candidate windows.
C6_NonSpeechAppendedNotCounted ==
  [][/\ (is_recording_speech /\ lastWindow'.n # lastWindow.n
           /\ ~lastWindow'.cand) =>
          IF ~EndStep
          THEN /\ speech_segments' = Append(speech_segments, lastWindow'.raw)
               /\ actual_speech_duration' = actual_speech_duration
          ELSE /\ lastEnd'.dur = actual_speech_duration
               /\ actual_speech_duration' <= actual_speech_duration
               /\ asr_queue' # asr_queue =>
                    asr_queue'[Len(asr_queue')].audio =
                      stereo_to_mono(Concat(Append(speech_segments,
                                                   lastWindow'.raw)))
     /\ (is_recording_speech /\ is_recording_speech'
           /\ actual_speech_duration' # actual_speech_duration) =>
          /\ lastWindow'.n # lastWindow.n
          /\ lastWindow'.cand
          /\ actual_speech_duration' = actual_speech_duration + WindowMs]_vars

C6_Witness ==
  /\ is_recording_speech
  /\ capPc = "callback"
  /\ ~lastWindow.cand
  /\ Len(speech_segments) >= 2
  /\ speech_segments[Len(speech_segments)] = lastWindow.raw
  /\ actual_speech_duration >= WindowMs

\* C7: finalizing an utterance while the dispatch queue holds asr_queue_size
\* items leaves the queue as it is, adds one to dropped and nothing to
\* queued, and the capture thread goes on without waiting.
C7_FullQueueDrops ==
  [][(uttCount' = uttCount + 1 /\ enable_asr /\ speech_recognizer # None
        /\ Len(asr_queue) = asr_queue_size) =>
       /\ asr_queue' = asr_queue
       /\ asr_stats'.dropped = asr_stats.dropped + 1
       /\ asr_stats'.queued = asr_stats.queued
       /\ asr_stats'.processed = asr_stats.processed
       /\ capPc' = "reset"]_vars

C7_Witness ==
  /\ capPc = "reset"
  /\ asr_stats.dropped > 0
  /\ Len(asr_queue) = asr_queue_size
  /\ \A i \in 1..Len(asr_queue) : asr_queue[i].utt # uttCount

\* C8: the worker takes the items in the order their utterances were
\* finalized: no item is processed before one that was enqueued earlier.
C8_ProcessedInOrder ==
  /\ \A i, j \in 1..Len(processedLog) :
       i < j => processedLog[i].utt < processedLog[j].utt
  /\ \A i \in 1..Len(processedLog), k \in 1..Len(asr_queue) :
       ~IsSentinel(asr_queue[k]) => processedLog[i].utt < asr_queue[k].utt
  /\ \A k, l \in 1..Len(asr_queue) :
       (k < l /\ ~IsSentinel(asr_queue[k]) /\ ~IsSentinel(asr_queue[l]))
         => asr_queue[k].utt < asr_queue[l].utt

C8_Witness ==
  \E i \in 1..Len(processedLog) :
    processedLog[i].waiting >= 1 /\ i < Len(processedLog)

Rows(index) == {index[i] : i \in 1..Len(index)}

\* C9: once constructed, the index holds at most max_cache_files entries,
\* and an entry leaves the index only if no retained entry is older than it
\* (eviction is oldest-first, the most recent ones stay).
C9_BoundedMostRecentKept ==
  [][/\ scenario' = "cache" => Len(recording_cache_index') <= max_cache_files
     /\ \A gone \in Rows(recording_cache_index) :
          gone.hash \notin IndexKeys(recording_cache_index') =>
            \A kept \in Rows(recording_cache_index') :
              gone.created <= kept.created]_vars

\* C10: byte-identical audio has one index key, and no two distinct files
\* on disk hold the same audio.
C10_OneFilePerContent ==
  /\ \A i, j \in 1..Len(recording_cache_index) :
       recording_cache_index[i].hash = recording_cache_index[j].hash => i = j
  /\ \A f, g \in cache_files : f.audio = g.audio => f.name = g.name

\* index and files correspond one-to-one
OneToOne ==
  /\ \A row \in Rows(recording_cache_index) :
       row.filename \in FileNames(cache_files)
  /\ \A f \in cache_files :
       Cardinality({i \in 1..Len(recording_cache_index) :
                      recording_cache_index[i].filename = f.name}) = 1

\* C11: the index and the cached files stay one-to-one (every row's file
\* exists, every file is named by exactly one row), and a row that leaves
\* the index takes its file with it.
C11_IndexFilesOneToOne ==
  [][OneToOne =>
       /\ OneToOne'
       /\ \A gone \in Rows(recording_cache_index) :
            gone.hash \notin IndexKeys(recording_cache_index') =>
              gone.filename \notin FileNames(cache_files')]_vars

\* C12: in the worked example (3 non-speech windows, 4 speech windows,
\* 6 non-speech windows of 0.3 s) the audio fed produces exactly one
\* DispatchItem, with a speech duration of 0.9 s and 2.7 s of audio.
C12_ExampleOneItem ==
  /\ (fed = Len(ExampleScript) /\ capPc = "callback") =>
       /\ uttCount = 1
       /\ recording_stats.short_recordings = 0
       /\ asr_stats.queued = 1
  /\ uttCount + recording_stats.short_recordings >= 1 =>
       /\ lastEnd.dur = 900
       /\ lastEnd.total = 2700

\* totalDuration of the utterance in progress: line 411 on its segments
TotalDuration(segs) == AudioLengthMs(stereo_to_mono(Concat(segs)))

\* C13: the speech duration of the utterance in progress never exceeds the
\* length of its audio, and no item on its way to the worker carries a
\* speech duration above its audio length.
C13_SpeechWithinTotal ==
  /\ (is_recording_speech /\ capPc = "callback") =>
       actual_speech_duration <= TotalDuration(speech_segments)
  /\ \A i \in 1..Len(asr_queue) :
       ~IsSentinel(asr_queue[i]) => asr_queue[i].speech <= asr_queue[i].length
  /\ wItem.speech <= wItem.length

C13_Witness ==
  /\ asr_queue # <<>>
  /\ asr_queue[1].speech = MaxSpeechWindows * WindowMs
  /\ asr_queue[1].length > asr_queue[1].speech

\* C14: a capture callback that finds capture paused leaves the chunk buffer
\* empty and does not run the segmentation: the recording flag, the
\* consecutive count, the segments, the speech duration, the queue and the
\* window evaluated last are unchanged, so the block is kept nowhere.
C14_PausedCallbackFrame ==
  [][(is_paused /\ capPc = "callback" /\ fed' # fed) =>
       /\ audio_buffer' = <<>>
       /\ UNCHANGED <<is_paused, is_recording_speech,
                      consecutive_speech_count, speech_segments,
                      actual_speech_duration, asr_queue, asr_stats,
                      recording_stats, lastWindow, lastEnd, uttCount>>]_vars

C14_Witness ==
  /\ is_paused
  /\ capPc = "callback"
  /\ fed = Len(ExampleScript) + MaxTrailing
  /\ audio_buffer = <<>>
  /\ asr_queue # <<>>

\* C15: when the recognizer returned None for an item, the worker has a cache
\* entry marked as failed recognition for it, resumes capture and does not
\* queue the item again, whether or not the cache write returned a path.
C15_FailedRecognitionResumes ==
  [][(wPc = "report" /\ wPc' # "report" /\ ~TextOk(wText)) =>
       /\ ~is_paused'
       /\ asr_queue' = asr_queue
       /\ \E row \in Rows(recording_cache_index') :
            /\ row.hash = get_recording_hash(wItem.audio)
            /\ ~row.recognition_success]_vars

(***************************************************************************)
(* Worker errors: the handler of lines 497-506.                            *)
(***************************************************************************)
\* the worker left its loop on a fatal error while capture is still running
StoppedOnFatal ==
  /\ wPc = "exited"
  /\ recording_active
  /\ processedLog # <<>>
  /\ processedLog[Len(processedLog)].raised = "fatal"

C17_NonFatalCaught ==
  [][(wPc = "except" /\ wText = "error" /\ wPc' # wPc) =>
       /\ wPc' = "get"
       /\ asr_consumer_active'
       /\ asr_queue' = asr_queue
       /\ asr_stats' = asr_stats]_vars

\* the item after one that raised a non-fatal exception has been recognized
C17_Witness ==
  /\ Len(processedLog) = 2
  /\ processedLog[1].raised = "error"
  /\ processedLog[2].utt > processedLog[1].utt
  /\ wPc = "report"
  /\ TextOk(wText)

C19_WorkerTerminates ==
  /\ (stopPc # "running" /\ enable_asr) ~> (wPc = "exited")
  /\ [](stopPc = "put" => ENABLED stop_put)
  /\ []((stopPc = "join" /\ wPc # "exited") => ENABLED stop_join(TRUE))

\* the queue was full at shutdown, no sentinel went in, stop_recording has
\* returned and the worker has left its loop
C19_Witness ==
  /\ stopPc = "done"
  /\ wPc = "exited"
  /\ Len(asr_queue) = asr_queue_size
  /\ \A k \in 1..Len(asr_queue) : ~IsSentinel(asr_queue[k])

(***************************************************************************)
(* The cache entry of a processed item: lines 460-491.                     *)
(***************************************************************************)
\* the index has a row for the item the worker holds, marked as given
EntryOfItem(index, success) ==
  \E row \in Rows(index) :
    /\ row.hash = get_recording_hash(wItem.audio)
    /\ row.recognition_success = success

\* the result callback is invoked only from the step after the save
CallbackAfterSave ==
  \A t \in aiThreads' \ aiThreads :
    t.pc = "respond" => (wPc = "report" /\ t.utt = wItem.utt)

\* C20, as stated: once the recognizer has returned, the save leaves a cache
\* entry for the item, marked successful iff a text was returned, and the
\* callback runs only afterwards.
C20_EntryAlwaysWritten ==
  [][/\ (wPc = "save" /\ wPc' = "report") =>
          EntryOfItem(recording_cache_index', wText = "text")
     /\ CallbackAfterSave]_vars

\* C20, amended: the save is attempted for every item whose recognition
\* returned; when the WAV file is written the index has an entry for the item,
\* marked successful iff a text was returned; when the write fails the index
\* is left as it was; the callback runs only after the save.
C20_EntryWhenWritten ==
  [][/\ (wPc = "recognize" /\ wPc' # wPc /\ wText' \in {"text", None}) =>
          wPc' = "save"
     /\ (wPc = "save" /\ wPc' = "report") =>
          IF wFile' # NoPath
          THEN EntryOfItem(recording_cache_index', wText = "text")
          ELSE recording_cache_index' = recording_cache_index
     /\ CallbackAfterSave]_vars

\* a failed recognition has been cached and marked as failed
C20_Witness ==
  /\ wPc = "report"
  /\ wText = None
  /\ wFile # NoPath
  /\ EntryOfItem(recording_cache_index, FALSE)

(***************************************************************************)
(* The result callback: lines 483-491.                                     *)
(***************************************************************************)
\* the worker lets go of the item it held
ItemDone == wItem # NoItem /\ wItem' = NoItem

\* the result callback has been invoked for utterance u in this step: main.py
\* starts one response thread per invocation
CallbackInvoked(u) ==
  \E t \in aiThreads' \ aiThreads : t.utt = u /\ t.pc = "respond"

\* C21: for every item whose recognition has returned and whose cache write
\* has been made, the step that ends its processing invokes the result
\* callback for it, and no other step of the worker invokes it.
C21_CallbackOncePerItem ==
  [][/\ (wPc = "report" /\ ItemDone) => CallbackInvoked(wItem.utt)
     /\ \A u \in Utterances :
          CallbackInvoked(u) => (wPc = "report" /\ ItemDone /\ wItem.utt = u)]_vars

\* C22: when the worker leaves its loop without a fatal error, every
\* DispatchItem that was put on the queue has been processed: none is left in
\* the queue, ahead of the sentinel or without one.
C22_QueuedProcessedBeforeExit ==
  [][(wPc # "exited" /\ wPc' = "exited" /\ ~(wPc = "except" /\ wText = "fatal")) =>
       /\ asr_stats'.processed = asr_stats'.queued
       /\ \A k \in 1..Len(asr_queue') : IsSentinel(asr_queue'[k])]_vars

(***************************************************************************)
(* Pause and dispatch at the end of a valid utterance: lines 372-376.      *)
(***************************************************************************)
\* C23: the step that puts a DispatchItem on the queue is the finalization
\* of its utterance and leaves the gate paused; the capture thread sets the
\* gate only there, once per utterance; and when the worker takes an item
\* the pause of its utterance has been engaged.
C23_PausedBeforeDispatch ==
  [][/\ (asr_stats'.queued > asr_stats.queued) =>
          /\ is_paused'
          /\ uttCount' = uttCount + 1
          /\ asr_queue'[Len(asr_queue')].utt = uttCount'
     /\ (~is_paused /\ is_paused') => uttCount' = uttCount + 1
     /\ (uttCount' # uttCount) => (~is_paused /\ uttCount' = uttCount + 1)
     /\ (wItem = NoItem /\ wItem' # NoItem) =>
          /\ wItem'.utt \in Utterances
          /\ wItem'.utt <= Len(resumeCalls)]_vars

\* the worker has just taken the item of an utterance whose pause still holds
C23_Witness ==
  /\ wPc = "recognize"
  /\ wItem.utt = uttCount
  /\ is_paused
  /\ resumeCalls[wItem.utt] = 0

(***************************************************************************)
(* The end of an utterance: lines 366-390.                                 *)
(***************************************************************************)
\* C24: an utterance ends (is dispatched or discarded) only at the
\* evaluation of a window, while recording, with more than silence_timeout
\* since the last speech-candidate window and no finalization in progress;
\* the window is not a speech candidate and the consecutive count is 0.
C24_EndsOnlyAfterSilence ==
  [][(EndStep \/ uttCount' # uttCount
        \/ recording_stats'.short_recordings # recording_stats.short_recordings) =>
       /\ EndStep
       /\ lastWindow'.n # lastWindow.n
       /\ is_recording_speech
       /\ silence_elapsed' > silence_timeout
       /\ ~is_processing
       /\ ~lastWindow'.cand
       /\ consecutive_speech_count' = 0]_vars

\* a valid utterance has just ended, on a non-speech window after the timeout
C24_Witness ==
  /\ capPc = "reset"
  /\ lastEnd.dur >= min_speech_duration
  /\ silence_elapsed > silence_timeout
  /\ ~lastWindow.cand
  /\ consecutive_speech_count = 0

\* C25: the discard of a too-short utterance clears the segments, adds
\* exactly one to short_recordings and nothing to the other counters, leaves
\* the recorder idle with an empty speech duration, leaves the gate as it
\* was (open) and leaves the queue and its counters alone.
C25_ShortDiscardFrame ==
  [][(EndStep /\ lastEnd'.dur < min_speech_duration) =>
       /\ speech_segments' = <<>>
       /\ recording_stats' =
            [recording_stats EXCEPT !.short_recordings = @ + 1]
       /\ ~is_recording_speech'
       /\ actual_speech_duration' = 0
       /\ capPc' = "callback"
       /\ ~is_paused /\ ~is_paused'
       /\ asr_queue' = asr_queue
       /\ asr_stats' = asr_stats
       /\ uttCount' = uttCount]_vars

\* a too-short utterance has been discarded and capture listens on
C25_Witness ==
  /\ recording_stats.short_recordings = 1
  /\ lastEnd.dur > 0
  /\ lastEnd.dur < min_speech_duration
  /\ uttCount = 0
  /\ ~is_recording_speech
  /\ speech_segments = <<>>
  /\ ~is_paused
  /\ asr_queue = <<>>

(***************************************************************************)
(* The chunk buffer across evaluations: lines 286-292 and 328-394.         *)
(***************************************************************************)
\* a detection window is evaluated in this step
WindowEvaluated == lastWindow'.n # lastWindow.n

\* C26: every evaluation of a detection window consumes it: when
\* process_audio_buffer has returned the chunk buffer is empty, so the next
\* window evaluated holds none of the blocks of this one.
C26_EvaluationConsumesBuffer ==
  [][/\ (WindowEvaluated /\ capPc' = "callback") => audio_buffer' = <<>>
     /\ (capPc = "reset" /\ capPc' = "callback") => audio_buffer' = <<>>]_vars

\* the chunk buffer still holds the window evaluated last, a speech candidate
\* that did not yet confirm
UnconfirmedHeld ==
  /\ ~is_recording_speech
  /\ lastWindow.cand
  /\ audio_buffer # <<>>
  /\ audio_buffer = lastWindow.raw

\* C27: the blocks of a speech-positive window evaluated before confirmation
\* are discarded: the first segment of the utterance that starts later does
\* not begin with them.
C27_UnconfirmedWindowDiscarded ==
  [][(~is_recording_speech /\ is_recording_speech' /\ UnconfirmedHeld) =>
       SubSeq(speech_segments'[1], 1, Len(lastWindow.raw)) # lastWindow.raw]_vars

(***************************************************************************)
(* The verdict on a window: lines 313-351.                                 *)
(***************************************************************************)
\* the oracle is positive on the window and its peak is at most the threshold
QuietButVoiced(raw) ==
  check_vad_activity(raw) /\ PeakOf(raw) * AmpDen <= AmpNum * FullScale

\* C28: a window is a speech candidate iff the oracle is positive and the
\* peak amplitude exceeds the threshold; a window that is not a candidate,
\* oracle-positive at or below the threshold included, sets the consecutive
\* count to 0, adds nothing to the speech duration and leaves the time of
\* the last activity where it was.
C28_CandidateNeedsAmplitude ==
  [][WindowEvaluated =>
       LET raw == lastWindow'.raw
           verdict == check_vad_activity(raw)
           loud == PeakOf(raw) * AmpDen > AmpNum * FullScale
       IN /\ lastWindow'.cand = (verdict /\ loud)
          /\ lastWindow'.cand => consecutive_speech_count' = consecutive_speech_count + 1
          /\ ~(verdict /\ loud) =>
               /\ consecutive_speech_count' = 0
               /\ actual_speech_duration' <= actual_speech_duration
               /\ EndStep => lastEnd'.dur = actual_speech_duration
               /\ silence_elapsed' = Elapse(silence_elapsed)]_vars

\* while recording, the window evaluated last was oracle-positive but quiet:
\* it was appended without counting as speech
C28_Witness ==
  /\ is_recording_speech
  /\ capPc = "callback"
  /\ QuietButVoiced(lastWindow.raw)
  /\ ~lastWindow.cand
  /\ consecutive_speech_count = 0
  /\ speech_segments[Len(speech_segments)] = lastWindow.raw
  /\ silence_elapsed > 0

(***************************************************************************)
(* Failures in the capture thread: lines 272-295 and 313-316.              *)
(***************************************************************************)
\* the evaluation of this step treats its window as a non-speech window
TreatedAsNonSpeech ==
  /\ ~lastWindow'.cand
  /\ consecutive_speech_count' = 0
  /\ (is_recording_speech /\ ~EndStep) =>
       /\ speech_segments' = Append(speech_segments, lastWindow'.raw)
       /\ actual_speech_duration' = actual_speech_duration
  /\ capPc' = "callback" => audio_buffer' = <<>>

\* C29: a window on which the oracle or the amplitude computation fails is
\* treated as a non-speech window: the consecutive count is set to 0, the
\* window is appended without speech duration while recording, and the
\* buffer is consumed.
C29_FailedWindowIsNonSpeech ==
  [][(WindowEvaluated /\ lastWindow'.fault \in {"vad", "amplitude"}) =>
       TreatedAsNonSpeech]_vars

\* C30: an exception raised while a block is handled does not leave
\* audio_callback: after a failed conversion or a failed evaluation the
\* capture thread is back where it takes the next callback, the recorder is
\* still active, and the capture thread is never anywhere else than in its
\* callback loop or in the reset after a valid utterance.
C30_CallbackNeverRaises ==
  [][/\ (lastWindow'.faults # lastWindow.faults
           /\ lastWindow'.fault \in {"amplitude", "convert"}) =>
          (capPc' = "callback" /\ recording_active')
     /\ capPc' \in {"callback", "reset"}]_vars

\* a silent window whose evaluation raised stayed in the buffer; the next
\* callback was handled: the window, one block longer, has been evaluated
\* without failure and consumed
C30_Witness ==
  /\ lastWindow.faults >= 1
  /\ lastWindow.fault = "none"
  /\ Len(lastWindow.raw) > BlocksPerWindow
  /\ PeakOf(lastWindow.raw) * AmpDen <= AmpNum * FullScale
  /\ capPc = "callback"
  /\ audio_buffer = <<>>

(***************************************************************************)
(* Idle defaults after an utterance: lines 372-390 and 396-440.            *)
(***************************************************************************)
\* C31: when the recorder has returned to idle after an utterance was
\* finalized or discarded, the segment list is empty and the speech duration
\* is 0, and they stay so while it is idle; the consecutive count is 0 at
\* the return.
C31_IdleDefaults ==
  [][/\ (is_recording_speech /\ ~is_recording_speech') =>
          consecutive_speech_count' = 0
     /\ (~is_recording_speech' /\ capPc' = "callback") =>
          (speech_segments' = <<>> /\ actual_speech_duration' = 0)]_vars

(***************************************************************************)
(* Eviction when the file cannot be deleted: lines 169-184.                *)
(***************************************************************************)
\* C32: eviction removes the entry from the index also when its file is
\* missing or cannot be deleted, so once the constructor's cleanup has run
\* the index holds at most max_cache_files entries.
C32_EvictionRemovesEntry ==
  scenario = "cache" => Len(recording_cache_index) <= max_cache_files

(***************************************************************************)
(* One DispatchItem per utterance: lines 396-440.                          *)
(***************************************************************************)
\* C33: the finalization of an utterance puts at most one DispatchItem on
\* the queue and leaves the segment list empty, so that a further call of
\* process_speech_segments returns at its first test; no more items have
\* been queued than utterances finalized.
C33_OneItemPerUtterance ==
  [][/\ (uttCount' = uttCount + 1) =>
          /\ Len(asr_queue') <= Len(asr_queue) + 1
          /\ asr_stats'.queued <= asr_stats.queued + 1
          /\ speech_segments' = <<>>
     /\ asr_stats'.queued <= uttCount']_vars

(***************************************************************************)
(* Outstanding utterances: lines 366-376, 413-426, 442-507.                *)
(***************************************************************************)
\* C34: in every reachable state the Dispatch Queue holds at most one
\* DispatchItem and no item has been dropped for a full queue.
C34_AtMostOneOutstanding ==
  /\ Len(asr_queue) <= 1
  /\ asr_stats.dropped = 0

(***************************************************************************)
(* The speech duration of a cache entry: lines 207-216, 384-386, 453-464.  *)
(***************************************************************************)
\* C35: the speech duration stored in a CacheEntry equals the speechDuration
\* carried by the DispatchItem the entry was created from, whatever the
\* capture thread has done in the meantime.
C35_EntryKeepsItemDuration ==
  [][(wPc = "save" /\ wPc' = "report" /\ wFile' # NoPath) =>
       \E row \in Rows(recording_cache_index') :
         /\ row.hash = get_recording_hash(wItem.audio)
         /\ row.speech_duration = wItem.speech]_vars

(***************************************************************************)
(* Every queued item is processed once: lines 413-419, 442-507.            *)
(***************************************************************************)
\* the DispatchItem of utterance u waits in the queue
Queued(u) == \E i \in 1..Len(asr_queue) : asr_queue[i].utt = u

\* the recognizer has raised an error the handler of line 502 takes as fatal
FatalSeen ==
  \E i \in 1..Len(processedLog) : processedLog[i].raised = "fatal"

\* C36: without shutdown and without a fatal worker error, every DispatchItem
\* placed on the queue is eventually dequeued and processed, and exactly
\* once: an item leaves the queue only into the worker's hands, and no
\* utterance is processed twice.
C36_QueuedEventuallyProcessedOnce ==
  /\ \A u \in 1..DeliveryUtterances : Queued(u) ~> (Processed(u) \/ FatalSeen)
  /\ [][\A u \in 1..DeliveryUtterances :
          (Queued(u) /\ ~Queued(u)') => (Processed(u)' /\ wItem'.utt = u)]_vars
  /\ [](\A i, j \in 1..Len(processedLog) :
          processedLog[i].utt = processedLog[j].utt => i = j)

\* the recognizer raised a non-fatal error on the first item, and the second
\* item has been queued, dequeued and processed after it
C36_Witness ==
  /\ Len(processedLog) = DeliveryUtterances
  /\ processedLog[1].raised = "error"
  /\ ~FatalSeen
  /\ asr_queue = <<>>
  /\ wItem = NoItem

(***************************************************************************)
(* The counters of asr_stats: lines 114-120, 413-426, 446-456.             *)
(***************************************************************************)
\* DispatchItems waiting in the queue (the sentinel of stop_recording is none)
ItemsInQueue ==
  Cardinality({k \in 1..Len(asr_queue) : ~IsSentinel(asr_queue[k])})

\* C37: with ASR enabled every valid finalized utterance is counted exactly
\* once, as queued or as dropped, and every queued one is either counted as
\* processed or still in the queue (at the points where neither thread is
\* between its queue operation and the counter update that follows it, lines
\* 417-419 and 448-455).
C37_UtterancesAccounted ==
  (enable_asr /\ speech_recognizer # None) =>
    /\ uttCount = asr_stats.queued + asr_stats.dropped
    /\ asr_stats.queued = asr_stats.processed + ItemsInQueue

\* one utterance processed, one waiting in the queue, one dropped
C37_Witness ==
  /\ enable_asr
  /\ asr_stats.processed >= 1
  /\ ItemsInQueue >= 1
  /\ asr_stats.dropped >= 1

====
